---- MODULE Spec2Model ----
(***************************************************************************)
(* SVR3 backup/restore: the conformance oracle of                          *)
(* rust/net/examples/svr3_prop_test.rs (InMemoryStorage, the reference     *)
(* state machine) run in lockstep with the live backup/restore protocol    *)
(* of spec section 4.4 (two replicas, each holding a per-user record).     *)
(***************************************************************************)
EXTENDS Integers, Sequences, FiniteSets, TLC

\* ------------------------------------------------------------------ bounds

\* uid() draws from four fixed user ids; the model takes the first NumUids.
NumUids == 2

\* secret() is any 32-byte value; the model takes NumSecrets distinct ones.
NumSecrets == 2

\* max_tries() is 1..MAX_TRIES_LIMIT (exclusive); the model stops at MaxTriesBound.
MaxTriesBound == 3

\* ---------------------------------------------------------------- constants

MAX_TRIES_LIMIT == 10

\* ------------------------------------------------------------------- values

Min(a, b) == IF a <= b THEN a ELSE b

\* Option<T>: None is the empty tuple, Some(x) the one-element tuple.
None == << >>

Some(x) == << x >>

unwrap(o) == o[1]

Uids == 0 .. (NumUids - 1)

Secrets == 1 .. NumSecrets

\* The values max_tries() generates: 1 .. MAX_TRIES_LIMIT - 1, cut at the bound.
max_tries == 1 .. Min(MaxTriesBound, MAX_TRIES_LIMIT - 1)

\* The (secret, tries) pairs backup_pair() generates.
backup_pair == Secrets \X max_tries

\* u32::saturating_sub
saturating_sub(a, b) == IF a >= b THEN a - b ELSE 0

Svr3Cell(secret, tries_left) == [secret |-> secret, tries_left |-> tries_left]

\* enum Transition
SetUidT(u) == [kind |-> "SetUid", uid |-> u]

BackupT(secret, tries_left) == [kind |-> "Backup", secret |-> secret, tries_left |-> tries_left]

RestoreT == [kind |-> "Restore"]

RestoreWithBadPasswordT == [kind |-> "RestoreWithBadPassword"]

\* enum TransitionOutcome
Nothing == [kind |-> "Nothing"]

NotFound == [kind |-> "NotFound"]

Restored(secret) == [kind |-> "Restored", secret |-> secret]

MaxTriesReached == [kind |-> "MaxTriesReached"]

BadCommitment == [kind |-> "BadCommitment"]

\* HashMap::insert and HashMap::remove on a map modelled as a function whose
\* domain is the set of keys present.
insert(m, k, v) == [x \in (DOMAIN m) \cup {k} |-> IF x = k THEN v ELSE m[x]]

remove(m, k) == [x \in (DOMAIN m) \ {k} |-> m[x]]

EmptyMap == [x \in {} |-> 0]

\* ------------------------------------------- the oracle: InMemoryStorage::apply

\* Transition::SetUid: the record map is left alone.
RefSetUid(d, u) == [uid |-> Some(u), data |-> d, outcome |-> Nothing]

\* Mutant of RefBackup: the stored counter is one short of the requested tries.
RefBackup_OffByOne(d, u, secret, tries_left) ==
    [data |-> insert(d, u, Svr3Cell(secret, saturating_sub(tries_left, 1))),
     outcome |-> Nothing]

\* Mutant of RefBackup: an existing record is kept (entry().or_insert()).
RefBackup_KeepExisting(d, u, secret, tries_left) ==
    [data |-> IF u \in DOMAIN d THEN d ELSE insert(d, u, Svr3Cell(secret, tries_left)),
     outcome |-> Nothing]

\* Transition::Backup: insert overwrites whatever the user id held.
RefBackup(d, u, secret, tries_left) ==
    [data |-> insert(d, u, Svr3Cell(secret, tries_left)), outcome |-> Nothing]

\* Mutant of RefRestore: the record is deleted, and the attempt reported exhausted,
\* by the attempt that brings the counter to 0.
RefRestore_DeleteAtZero(d, u, expect_bad_commitment) ==
    IF u \notin DOMAIN d
    THEN [data |-> d, outcome |-> NotFound]
    ELSE IF saturating_sub(d[u].tries_left, 1) = 0
    THEN [data |-> remove(d, u), outcome |-> MaxTriesReached]
    ELSE IF expect_bad_commitment
    THEN [data |-> [d EXCEPT ![u].tries_left = saturating_sub(@, 1)],
          outcome |-> BadCommitment]
    ELSE [data |-> [d EXCEPT ![u].tries_left = saturating_sub(@, 1)],
          outcome |-> Restored(d[u].secret)]

\* Mutant of RefRestore: the exhausted arm clears the whole map.
RefRestore_ClearsOnExhaustion(d, u, expect_bad_commitment) ==
    IF u \notin DOMAIN d
    THEN [data |-> d, outcome |-> NotFound]
    ELSE IF d[u].tries_left = 0
    THEN [data |-> EmptyMap, outcome |-> MaxTriesReached]
    ELSE IF expect_bad_commitment
    THEN [data |-> [d EXCEPT ![u].tries_left = saturating_sub(@, 1)],
          outcome |-> BadCommitment]
    ELSE [data |-> [d EXCEPT ![u].tries_left = saturating_sub(@, 1)],
          outcome |-> Restored(d[u].secret)]

\* Mutant of RefRestore: the exhausted arm forgets to remove the record.
RefRestore_NoRemove(d, u, expect_bad_commitment) ==
    IF u \notin DOMAIN d
    THEN [data |-> d, outcome |-> NotFound]
    ELSE IF d[u].tries_left = 0
    THEN [data |-> d, outcome |-> MaxTriesReached]
    ELSE IF expect_bad_commitment
    THEN [data |-> [d EXCEPT ![u].tries_left = saturating_sub(@, 1)],
          outcome |-> BadCommitment]
    ELSE [data |-> [d EXCEPT ![u].tries_left = saturating_sub(@, 1)],
          outcome |-> Restored(d[u].secret)]

\* Mutant of RefRestore: a wrong-password attempt does not consume a try.
RefRestore_NoDecrementOnBad(d, u, expect_bad_commitment) ==
    IF u \notin DOMAIN d
    THEN [data |-> d, outcome |-> NotFound]
    ELSE IF d[u].tries_left = 0
    THEN [data |-> remove(d, u), outcome |-> MaxTriesReached]
    ELSE IF expect_bad_commitment
    THEN [data |-> d, outcome |-> BadCommitment]
    ELSE [data |-> [d EXCEPT ![u].tries_left = saturating_sub(@, 1)],
          outcome |-> Restored(d[u].secret)]

\* Mutant of RefRestore: a correct-password attempt does not consume a try.
RefRestore_NoDecrementOnGood(d, u, expect_bad_commitment) ==
    IF u \notin DOMAIN d
    THEN [data |-> d, outcome |-> NotFound]
    ELSE IF d[u].tries_left = 0
    THEN [data |-> remove(d, u), outcome |-> MaxTriesReached]
    ELSE IF expect_bad_commitment
    THEN [data |-> [d EXCEPT ![u].tries_left = saturating_sub(@, 1)],
          outcome |-> BadCommitment]
    ELSE [data |-> d, outcome |-> Restored(d[u].secret)]

\* Mutant of RefRestore: the wrong-password arm is matched before the exhausted one.
RefRestore_ArmsSwapped(d, u, expect_bad_commitment) ==
    IF u \notin DOMAIN d
    THEN [data |-> d, outcome |-> NotFound]
    ELSE IF expect_bad_commitment
    THEN [data |-> [d EXCEPT ![u].tries_left = saturating_sub(@, 1)],
          outcome |-> BadCommitment]
    ELSE IF d[u].tries_left = 0
    THEN [data |-> remove(d, u), outcome |-> MaxTriesReached]
    ELSE [data |-> [d EXCEPT ![u].tries_left = saturating_sub(@, 1)],
          outcome |-> Restored(d[u].secret)]

\* Mutant of RefRestore: a missing record is reported as a wrong password when the
\* wrong password was used.
RefRestore_AbsentIsBadCommitment(d, u, expect_bad_commitment) ==
    IF u \notin DOMAIN d
    THEN [data |-> d, outcome |-> IF expect_bad_commitment THEN BadCommitment ELSE NotFound]
    ELSE IF d[u].tries_left = 0
    THEN [data |-> remove(d, u), outcome |-> MaxTriesReached]
    ELSE IF expect_bad_commitment
    THEN [data |-> [d EXCEPT ![u].tries_left = saturating_sub(@, 1)],
          outcome |-> BadCommitment]
    ELSE [data |-> [d EXCEPT ![u].tries_left = saturating_sub(@, 1)],
          outcome |-> Restored(d[u].secret)]

\* Transition::Restore | Transition::RestoreWithBadPassword: the four match arms,
\* in the order of the source.
RefRestore(d, u, expect_bad_commitment) ==
    IF u \notin DOMAIN d
    THEN [data |-> d, outcome |-> NotFound]
    ELSE IF d[u].tries_left = 0
    THEN [data |-> remove(d, u), outcome |-> MaxTriesReached]
    ELSE IF expect_bad_commitment
    THEN [data |-> [d EXCEPT ![u].tries_left = saturating_sub(@, 1)],
          outcome |-> BadCommitment]
    ELSE [data |-> [d EXCEPT ![u].tries_left = saturating_sub(@, 1)],
          outcome |-> Restored(d[u].secret)]

\* The password the driver uses for a restore; every backup uses "password".
PasswordFor(expect_bad_commitment) ==
    IF expect_bad_commitment THEN "bad password" ELSE "password"

\* The live result the driver accepts for an oracle outcome: Ok(secret) for
\* Restored(secret), DataMissing for MaxTriesReached and NotFound, RestoreFailed
\* for BadCommitment.
LiveOk(secret) == [kind |-> "Ok", secret |-> secret]

LiveDataMissing == [kind |-> "DataMissing"]

LiveRestoreFailed == [kind |-> "RestoreFailed"]

NoCall == [kind |-> "NoCall"]

ExpectedLive(outcome) ==
    CASE outcome.kind = "Restored" -> LiveOk(outcome.secret)
      [] outcome.kind \in {"MaxTriesReached", "NotFound"} -> LiveDataMissing
      [] outcome.kind = "BadCommitment" -> LiveRestoreFailed
      [] OTHER -> NoCall

\* ------------------------------- the live protocol (spec 4.4): two replicas

\* PpssSetup for Svr3Env: server_ids() = [1, 2]
ServerIds == {1, 2}

\* The share replica i holds of a secret (the sharing itself is external).
Share(i, secret) == [server |-> i, of |-> secret]

\* backup: one share + commitment + maxTries to every replica, overwriting.
LiveBackup(reps, u, password, secret, maxTries) ==
    [i \in ServerIds |->
        insert(reps[i], u,
               [share |-> Share(i, secret), commitment |-> password, tries |-> maxTries])]

\* One replica's answer to a restore: look the record up, decrement the counter
\* whatever the password, delete the record when the counter reaches 0.
ReplicaRestore(recs, u, commitment) ==
    IF u \notin DOMAIN recs
    THEN [records |-> recs, answer |-> [kind |-> "NotFound"]]
    ELSE IF recs[u].tries - 1 <= 0
    THEN [records |-> remove(recs, u), answer |-> [kind |-> "Exhausted"]]
    ELSE [records |-> [recs EXCEPT ![u].tries = @ - 1],
          answer |-> IF recs[u].commitment = commitment
                     THEN [kind |-> "Share", share |-> recs[u].share]
                     ELSE [kind |-> "Mismatch"]]

\* restore: query every replica, then combine: data missing if any replica reports
\* absent or exhausted, restore failed on a commitment mismatch, else the secret.
LiveRestore(reps, u, password) ==
    LET r == [i \in ServerIds |-> ReplicaRestore(reps[i], u, password)]
        kinds == {r[i].answer.kind : i \in ServerIds}
    IN  [replicas |-> [i \in ServerIds |-> r[i].records],
         result |->
            IF kinds \cap {"NotFound", "Exhausted"} # {}
            THEN LiveDataMissing
            ELSE IF "Mismatch" \in kinds
            THEN LiveRestoreFailed
            ELSE LiveOk(CHOOSE s \in Secrets :
                            \A i \in ServerIds : r[i].answer.share.of = s)]

\* --------------------------------------------- SvrConnection::connect (svr.rs)

\* Bound: the last instant of the clock the connection manager reads.
MaxTime == 3

\* Bound: the most consecutive failures a route remembers.
MaxFailures == 2

\* impl Svr3Flavor for Sgx {} and for Nitro {}: the flavors an SvrConnection can
\* be tagged with.
Svr3Flavors == {"Sgx", "Nitro"}

\* Result<T, E>
Ok(value) == [ok |-> TRUE, value |-> value]

Err(error) == [ok |-> FALSE, error |-> error]

\* NetError values a transport can fail with.
TransportErrors == {"Failure", "Disconnected"}

\* attest::enclave::Error values a handshake can reject the evidence with.
AttestErrors == {"AttestationDataError"}

\* enum Error
ErrorNet(e) == [kind |-> "Net", error |-> e]

ErrorProtocol == [kind |-> "Protocol"]

ErrorAttestationError(err) == [kind |-> "AttestationError", error |-> err]

\* ServiceState, as service_initializer.connect() returns it
Active == [kind |-> "Active"]

Cooldown(remaining) == [kind |-> "Cooldown", remaining |-> remaining]

ServiceError(e) == [kind |-> "Error", error |-> e]

TimedOut == [kind |-> "TimedOut"]

\* AttestedConnectionError
AttestedClientConnection == [kind |-> "ClientConnection"]

AttestedNet(e) == [kind |-> "Net", error |-> e]

AttestedProtocol == [kind |-> "Protocol"]

AttestedSgx(err) == [kind |-> "Sgx", error |-> err]

AttestedConnectionErrors ==
    {AttestedClientConnection, AttestedProtocol}
        \cup {AttestedNet(e) : e \in TransportErrors}
        \cup {AttestedSgx(err) : err \in AttestErrors}

\* What the attested handshake can end with: the evidence verified, or an error.
HandshakeOutcomes == {[kind |-> "Verified"]} \cup AttestedConnectionErrors

\* Mutant of FromAttestedConnectionError: an attestation failure becomes Protocol.
FromAttestedConnectionError_SgxAsProtocol(value) ==
    CASE value.kind = "ClientConnection" -> ErrorProtocol
      [] value.kind = "Net" -> ErrorNet(value.error)
      [] value.kind = "Protocol" -> ErrorProtocol
      [] value.kind = "Sgx" -> ErrorProtocol

\* Mutant of FromAttestedConnectionError: a client-handshake failure becomes Net.
FromAttestedConnectionError_ClientConnectionAsNet(value) ==
    CASE value.kind = "ClientConnection" -> ErrorNet("Failure")
      [] value.kind = "Net" -> ErrorNet(value.error)
      [] value.kind = "Protocol" -> ErrorProtocol
      [] value.kind = "Sgx" -> ErrorAttestationError(value.error)

\* impl From<AttestedConnectionError> for Error
FromAttestedConnectionError(value) ==
    CASE value.kind = "ClientConnection" -> ErrorProtocol
      [] value.kind = "Net" -> ErrorNet(value.error)
      [] value.kind = "Protocol" -> ErrorProtocol
      [] value.kind = "Sgx" -> ErrorAttestationError(value.error)

\* An AttestedConnection: the channel, with the flavor whose handshake verified
\* its attestation.
AttestedConnection(flavor) == [verified_by |-> flavor]

\* SvrConnection::<Flavor>::new(inner)
SvrConnectionNew(flavor, inner) == [witness |-> flavor, inner |-> inner]

\* The connections a caller can come to hold.
AttestedConnections == {AttestedConnection(f) : f \in Svr3Flavors}

SvrConnections ==
    {SvrConnectionNew(F, inner) : F \in Svr3Flavors, inner \in AttestedConnections}

\* impl From<SvrConnection<Flavor>> for AttestedConnection
IntoAttestedConnection(conn) == conn.inner

\* Mutant of MatchServiceState: a cooldown is reported as a timeout.
MatchServiceState_CooldownAsTimeout(state) ==
    CASE state.kind = "Active" -> Ok("websocket")
      [] state.kind = "Cooldown" -> Err(ErrorNet("Timeout"))
      [] state.kind = "Error" -> Err(ErrorNet(state.error))
      [] state.kind = "TimedOut" -> Err(ErrorNet("Timeout"))

\* connect: the match on the manager's outcome, up to the `?`
MatchServiceState(state) ==
    CASE state.kind = "Active" -> Ok("websocket")
      [] state.kind = "Cooldown" -> Err(ErrorNet("NoServiceConnection"))
      [] state.kind = "Error" -> Err(ErrorNet(state.error))
      [] state.kind = "TimedOut" -> Err(ErrorNet("Timeout"))

\* connect: AttestedConnection::connect(websocket, E::new_handshake) on a
\* websocket, ending as the handshake ended.
AttestedConnect(E, outcome) ==
    IF outcome.kind = "Verified"
    THEN Ok(AttestedConnection(E))
    ELSE Err(outcome)

\* Mutant of AfterHandshake: a failed handshake is tried again inside the call.
AfterHandshake_RetryOnError(attested) ==
    IF attested.ok THEN "returned" ELSE "handshake"

\* connect: `.await?` on the handshake and `Ok(Self::new(attested))`: either way
\* the call returns.
AfterHandshake(attested) == "returned"

\* connect: the value returned after the handshake.
ConnectResult(E, attested) ==
    IF attested.ok
    THEN Ok(SvrConnectionNew(E, attested.value))
    ELSE Err(FromAttestedConnectionError(attested.error))

\* The connection manager (spec 4.1).  A route remembers its consecutive
\* failures and the instant its cooldown window ends.
FreshRoute == [failures |-> 0, cooldown_until |-> 0]

InCooldown(route, time) == time < route.cooldown_until

\* What one network attempt of the connector can end with; a timeout may or may
\* not count against the route.
ConnectorOutcomes ==
    {[kind |-> "Connected"]}
        \cup {[kind |-> "Failed", error |-> e] : e \in TransportErrors}
        \cup {[kind |-> "TimedOut", penalised |-> b] : b \in BOOLEAN}

Penalised(route, time) ==
    LET f == Min(route.failures + 1, MaxFailures)
    IN  [failures |-> f, cooldown_until |-> time + f]

\* Mutant of ManagerConnect: the network is attempted whatever the cooldown.
ManagerConnect_IgnoresCooldown(route, time, attempt) ==
    CASE attempt.kind = "Connected" ->
            [state |-> Active, route |-> FreshRoute, attempted |-> TRUE]
      [] attempt.kind = "Failed" ->
            [state |-> ServiceError(attempt.error),
             route |-> Penalised(route, time), attempted |-> TRUE]
      [] attempt.kind = "TimedOut" ->
            [state |-> TimedOut,
             route |-> IF attempt.penalised THEN Penalised(route, time) ELSE route,
             attempted |-> TRUE]

\* ConnectionManager.connectOrWait on a single route: the outcome, the route
\* state it leaves, and whether the network was attempted.
ManagerConnect(route, time, attempt) ==
    IF InCooldown(route, time)
    THEN [state |-> Cooldown(route.cooldown_until - time),
          route |-> route, attempted |-> FALSE]
    ELSE CASE attempt.kind = "Connected" ->
                [state |-> Active, route |-> FreshRoute, attempted |-> TRUE]
           [] attempt.kind = "Failed" ->
                [state |-> ServiceError(attempt.error),
                 route |-> Penalised(route, time), attempted |-> TRUE]
           [] attempt.kind = "TimedOut" ->
                [state |-> TimedOut,
                 route |-> IF attempt.penalised THEN Penalised(route, time) ELSE route,
                 attempted |-> TRUE]

\* ---------------------------------- Svr3Storage::backup (svr3_prop_test.rs)

\* Bound: the backups one run of the driver makes.
MaxBackups == 3

\* The errors SvrConnection::connect can return.
ConnectErrors ==
    {ErrorNet(e) : e \in TransportErrors \cup {"NoServiceConnection", "Timeout"}}
        \cup {ErrorProtocol}
        \cup {ErrorAttestationError(err) : err \in AttestErrors}

\* What SvrConnection::<E>::connect can return to the driver.
ConnectResults(E) ==
    {Ok(SvrConnectionNew(E, AttestedConnection(E)))}
        \cup {Err(e) : e \in ConnectErrors}

\* The replica each connection of Svr3Env::Connections talks to.
ServerOf(E) == IF E = "Sgx" THEN 1 ELSE 2

\* Mutant of AfterConnect: the driver goes on after a failed connect.
AfterConnect_IgnoreFailure(result, next) == next

\* Svr3Storage::connect: `.expect(...)` on a connect result; the driver goes on
\* only with a connection.
AfterConnect(result, next) == IF result.ok THEN next ELSE "panicked"

\* Svr3Env::backup (spec 4.4, 5): the fan-in of the per-replica sends; a ShareSet
\* only if every send succeeded.
FanIn(acks, id) ==
    IF \A i \in ServerIds : acks[i] = "accepted" THEN Ok(id) ELSE Err("backup failed")

NoAcks == [i \in ServerIds |-> "pending"]

\* ---------------------------------- Svr3Storage::apply (svr3_prop_test.rs)

\* An Error of Svr3Env::restore other than DataMissing and RestoreFailed.
LiveOther == [kind |-> "Other"]

\* What Svr3Env::restore can return to the driver.
LiveResults ==
    {LiveOk(s) : s \in Secrets} \cup {LiveDataMissing, LiveRestoreFailed, LiveOther}

\* Svr3Storage::apply, Restore | RestoreWithBadPassword with a share set: whether
\* the arm taken for the live result returns without a failed assertion or panic.
RestoreCheck(live, outcome, expect_bad_commitment) ==
    CASE live.kind = "Ok" ->
            outcome.kind = "Restored" /\ live.secret = outcome.secret
      [] live.kind = "DataMissing" ->
            outcome.kind \in {"MaxTriesReached", "NotFound"}
      [] live.kind = "RestoreFailed" /\ expect_bad_commitment -> TRUE
      [] OTHER -> FALSE

\* Svr3Storage::apply, Restore | RestoreWithBadPassword without a share set: the
\* assertion of the "nothing to restore" arm.
NothingToRestoreCheck(outcome) == outcome.kind = "NotFound"

\* Mutant of ShareSetsAfterRestore: the share set is forgotten on any error.
ShareSetsAfterRestore_ForgetOnAnyError(sets, u, live, forget) ==
    IF live.kind # "Ok" /\ forget THEN sets \ {u} ELSE sets

\* Svr3Storage::apply, Error::DataMissing arm: share_sets.remove(&uid) if
\* config.forget_share_set.
ShareSetsAfterRestore(sets, u, live, forget) ==
    IF live.kind = "DataMissing" /\ forget THEN sets \ {u} ELSE sets

\* ------------------------------------------- EnclaveKind::url_path (enclave.rs)

\* Bound: the longest enclave identity tried.
MaxLen == 3

\* enum Cdsi, enum Sgx, enum Nitro: the types implementing EnclaveKind.
EnclaveKinds == {"Cdsi", "Sgx", "Nitro"}

\* The bytes identities are made of here: ' ', 'a', the two bytes of U+00E9,
\* and a byte no UTF-8 text contains.
SampleBytes == {32, 97, 195, 169, 255}

RECURSIVE SeqsUpTo(_, _)
\* The sequences over S of length at most n.
SeqsUpTo(S, n) ==
    IF n = 0
    THEN {<< >>}
    ELSE LET shorter == SeqsUpTo(S, n - 1)
         IN  shorter \cup {Append(s, b) : s \in shorter, b \in S}

\* &[u8], the enclave identities
Identities == SeqsUpTo(SampleBytes, MaxLen)

\* An ASCII digit of "0123456789abcdef".
HexDigit(d) == IF d < 10 THEN 48 + d ELSE 87 + d

RECURSIVE HexEncode(_)
\* hex::encode: two lowercase digits per byte.
HexEncode(bytes) ==
    IF bytes = << >>
    THEN << >>
    ELSE << HexDigit(Head(bytes) \div 16), HexDigit(Head(bytes) % 16) >>
            \o HexEncode(Tail(bytes))

IsContinuation(b) == b >= 128 /\ b <= 191

RECURSIVE ValidUtf8(_)
\* std::str::from_utf8 succeeds: every scalar value well-formed, shortest form,
\* no surrogate, at most U+10FFFF.
ValidUtf8(bytes) ==
    IF bytes = << >>
    THEN TRUE
    ELSE LET b == Head(bytes)
             n == Len(bytes)
         IN  IF b < 128
             THEN ValidUtf8(Tail(bytes))
             ELSE IF b >= 194 /\ b <= 223
             THEN /\ n >= 2
                  /\ IsContinuation(bytes[2])
                  /\ ValidUtf8(SubSeq(bytes, 3, n))
             ELSE IF b >= 224 /\ b <= 239
             THEN /\ n >= 3
                  /\ IsContinuation(bytes[2])
                  /\ IsContinuation(bytes[3])
                  /\ (b = 224 => bytes[2] >= 160)
                  /\ (b = 237 => bytes[2] <= 159)
                  /\ ValidUtf8(SubSeq(bytes, 4, n))
             ELSE IF b >= 240 /\ b <= 244
             THEN /\ n >= 4
                  /\ IsContinuation(bytes[2])
                  /\ IsContinuation(bytes[3])
                  /\ IsContinuation(bytes[4])
                  /\ (b = 240 => bytes[2] >= 144)
                  /\ (b = 244 => bytes[2] <= 143)
                  /\ ValidUtf8(SubSeq(bytes, 5, n))
             ELSE FALSE

\* The bytes of "/v1/" and of "/discovery".
V1 == << 47, 118, 49, 47 >>

Discovery == << 47, 100, 105, 115, 99, 111, 118, 101, 114, 121 >>

\* PathAndQuery::try_from accepts a byte of a path: the visible ASCII a path may
\* hold; a byte from 0x7F on only where the parser is lenient about it.
PathByteOk(b, lenient) ==
    IF b >= 127
    THEN lenient
    ELSE b \in ({33, 34, 61} \cup (36 .. 59) \cup (64 .. 95) \cup (97 .. 126))

\* Option::unwrap / Result::unwrap / expect: the value, or the panic.
Panic == [panic |-> TRUE]

Value(v) == [panic |-> FALSE, value |-> v]

\* PathAndQuery::try_from(text).unwrap()
PathAndQueryUnwrap(text, lenient) ==
    IF \A k \in 1 .. Len(text) : PathByteOk(text[k], lenient)
    THEN Value(text)
    ELSE Panic

\* impl EnclaveKind for Cdsi / Sgx / Nitro: url_path
url_path(E, enclave, lenient) ==
    CASE E = "Cdsi" -> PathAndQueryUnwrap(V1 \o HexEncode(enclave) \o Discovery, lenient)
      [] E = "Sgx" -> PathAndQueryUnwrap(V1 \o HexEncode(enclave), lenient)
      [] E = "Nitro" ->
            IF ValidUtf8(enclave)
            THEN PathAndQueryUnwrap(V1 \o enclave, lenient)
            ELSE Panic

\* EnclaveEndpointConnection::with_custom_properties: the connection for the
\* path url_path gives, or the panic of url_path.
with_custom_properties(E, mr_enclave, lenient) ==
    LET path == url_path(E, mr_enclave, lenient)
    IN  IF path.panic
        THEN Panic
        ELSE Value([path |-> path.value, manager |-> FreshRoute])

\* -------------------------------------------------------------------- state

VARIABLES
    uid,                        \* InMemoryStorage.uid: Option<Uid>
    data,                       \* InMemoryStorage.data: HashMap<Uid, Svr3Cell>
    last_transition_outcome,    \* InMemoryStorage.last_transition_outcome
    transition,                 \* the Transition most recently applied
    replicas,                   \* per replica, its per-user records
    live_result,                \* what the live protocol returned for that transition
    session,                    \* history: the latest Backup since the last SetUid,
                                \* with the restore attempts made after it
    ever_backed_up,             \* history: the user ids a Backup was ever applied to
    c_pc,                       \* connect: where the call is
    c_flavor,                   \* connect: the flavor E of the call
    c_service_state,            \* connect: the manager's outcome, once it returned
    c_handshake,                \* connect: how the handshake ended, once it did
    c_result,                   \* connect: the value returned, once it returned
    c_manager_calls,            \* history: manager attempts made by the call
    c_handshakes,               \* history: attested handshakes started by the call
    c_net_attempts,             \* history: network attempts made for the call
    route,                      \* the manager's state for the route
    now,                        \* the clock the manager reads
    svr_conns,                  \* the SvrConnections the caller holds
    attested,                   \* the bare AttestedConnections the caller holds
    b_pc,                       \* backup: where the driver's call is
    b_id,                       \* backup: the number of the backup being made
    b_conns,                    \* backup: the replicas connected to
    b_unreachable,              \* history: the replicas the connect failed for
    b_acks,                     \* backup: per replica, how its send ended
    srv_share,                  \* per replica, the backup whose share it holds
    share_set,                  \* Svr3Storage.share_sets: the backup whose
                                \* ShareSet is held (0: none)
    b_failed,                   \* history: the backups that returned no ShareSet
    current_uid,                \* Svr3Storage.current_uid
    share_sets,                 \* Svr3Storage.share_sets: the user ids a share
                                \* set is held for
    forget_share_set,           \* Svr3Storage.config.forget_share_set
    d_status,                   \* driver: running, or failed by an assertion or panic
    d_live,                     \* driver: what the live restore returned, if called
    d_branch,                   \* driver: the arm the last restore took
    d_conforming,               \* history: the live service has answered as the
                                \* reference does so far
    u_call,                     \* endpoint setup: the flavor and identity of the call
    u_result                    \* endpoint setup: what it returned, or the panic

ref_vars ==
    << uid, data, last_transition_outcome, transition, replicas, live_result,
       session, ever_backed_up >>

call_vars ==
    << c_pc, c_flavor, c_service_state, c_handshake, c_result,
       c_manager_calls, c_handshakes, c_net_attempts >>

conn_vars == << call_vars, route, now, svr_conns, attested >>

bk_vars ==
    << b_pc, b_id, b_conns, b_unreachable, b_acks, srv_share, share_set, b_failed >>

drv_vars ==
    << current_uid, share_sets, forget_share_set, d_status, d_live, d_branch,
       d_conforming >>

url_vars == << u_call, u_result >>

rest_vars == << drv_vars, url_vars >>

vars == << ref_vars, conn_vars, bk_vars, drv_vars, url_vars >>

\* InMemoryStorage::default(); no transition applied, no replica holds a record;
\* no connect call made, the route fresh, no connection held; no backup made by
\* the driver, no replica holds a share; no endpoint set up.
InitState ==
    /\ uid = None
    /\ data = EmptyMap
    /\ last_transition_outcome = Nothing
    /\ transition = [kind |-> "Init"]
    /\ replicas = [i \in ServerIds |-> EmptyMap]
    /\ live_result = NoCall
    /\ session = None
    /\ ever_backed_up = {}
    /\ c_pc = "idle"
    /\ c_flavor = None
    /\ c_service_state = None
    /\ c_handshake = None
    /\ c_result = None
    /\ c_manager_calls = 0
    /\ c_handshakes = 0
    /\ c_net_attempts = 0
    /\ route = FreshRoute
    /\ now = 0
    /\ svr_conns = {}
    /\ attested = {}
    /\ b_pc = "idle"
    /\ b_id = 0
    /\ b_conns = {}
    /\ b_unreachable = {}
    /\ b_acks = NoAcks
    /\ srv_share = [i \in ServerIds |-> 0]
    /\ share_set = 0
    /\ b_failed = {}
    /\ current_uid = None
    /\ share_sets = {}
    /\ d_status = "running"
    /\ d_live = NoCall
    /\ d_branch = "none"
    /\ d_conforming = TRUE
    /\ u_result = None

\* SUTConfig::default(): forget_share_set is false.
Init == InitState /\ forget_share_set = FALSE /\ u_call = None

\* The history after a Backup: what it stored, and whether it overwrote a record
\* holding another secret.
Started(d, u, secret, tries_left) ==
    Some([secret |-> secret,
          max_tries |-> tries_left,
          attempts |-> 0,
          wrong |-> FALSE,
          replaced |-> u \in DOMAIN d /\ d[u].secret # secret])

\* The history after one more restore attempt: the attempts made and whether any
\* of them used the wrong password (the count stops one past max_tries: by then
\* the record is gone).
Attempted(h, expect_bad_commitment) ==
    IF h = None \/ unwrap(h).attempts > unwrap(h).max_tries
    THEN h
    ELSE Some([unwrap(h) EXCEPT !.attempts = @ + 1,
                                !.wrong = @ \/ expect_bad_commitment])

\* ------------------------------------------------------------------ actions

\* transitions(): SetUid is always offered.
SetUid(u) ==
    LET r == RefSetUid(data, u)
    IN  /\ uid' = r.uid
        /\ data' = r.data
        /\ last_transition_outcome' = r.outcome
        /\ transition' = SetUidT(u)
        /\ live_result' = NoCall
        /\ session' = None
        /\ UNCHANGED << replicas, ever_backed_up, conn_vars, bk_vars, rest_vars >>

\* transitions(): Backup is offered once a uid is set.
Backup(secret, tries_left) ==
    /\ uid # None
    /\ LET u == unwrap(uid)
           r == RefBackup(data, u, secret, tries_left)
       IN  /\ data' = r.data
           /\ last_transition_outcome' = r.outcome
           /\ transition' = BackupT(secret, tries_left)
           /\ replicas' = LiveBackup(replicas, u, "password", secret, tries_left)
           /\ live_result' = NoCall
           /\ session' = Started(data, u, secret, tries_left)
           /\ ever_backed_up' = ever_backed_up \cup {u}
    /\ UNCHANGED << uid, conn_vars, bk_vars, rest_vars >>

\* transitions(): Restore and RestoreWithBadPassword are offered once a uid is set.
RestoreWith(expect_bad_commitment) ==
    /\ uid # None
    /\ LET u == unwrap(uid)
           r == RefRestore(data, u, expect_bad_commitment)
           l == LiveRestore(replicas, u, PasswordFor(expect_bad_commitment))
       IN  /\ data' = r.data
           /\ last_transition_outcome' = r.outcome
           /\ transition' = IF expect_bad_commitment THEN RestoreWithBadPasswordT ELSE RestoreT
           /\ replicas' = l.replicas
           /\ live_result' = l.result
           /\ session' = Attempted(session, expect_bad_commitment)
    /\ UNCHANGED << uid, ever_backed_up, conn_vars, bk_vars, rest_vars >>

Restore == RestoreWith(FALSE)

RestoreWithBadPassword == RestoreWith(TRUE)

Next ==
    \/ \E u \in Uids : SetUid(u)
    \/ \E p \in backup_pair : Backup(p[1], p[2])
    \/ Restore
    \/ RestoreWithBadPassword

Spec == Init /\ [][Next]_vars

\* ---------------------------------------------- actions of SvrConnection use

\* SvrConnection::<E>::connect is called: the call awaits the manager.
ConnectCall(E) ==
    /\ c_pc \in {"idle", "returned"}
    /\ c_pc' = "manager"
    /\ c_flavor' = Some(E)
    /\ c_service_state' = None
    /\ c_handshake' = None
    /\ c_result' = None
    /\ c_manager_calls' = 0
    /\ c_handshakes' = 0
    /\ c_net_attempts' = 0
    /\ UNCHANGED << ref_vars, bk_vars, rest_vars, route, now, svr_conns, attested >>

\* service_initializer.connect().await returns, and connect matches on it: an
\* Active state goes on to the handshake, any other returns the error.
ManagerReturns(attempt) ==
    /\ c_pc = "manager"
    /\ LET m == ManagerConnect(route, now, attempt)
           websocket == MatchServiceState(m.state)
       IN  /\ c_service_state' = Some(m.state)
           /\ route' = m.route
           /\ c_manager_calls' = c_manager_calls + 1
           /\ c_net_attempts' = c_net_attempts + (IF m.attempted THEN 1 ELSE 0)
           /\ c_pc' = IF websocket.ok THEN "handshake" ELSE "returned"
           /\ c_result' = IF websocket.ok THEN None ELSE Some(websocket)
    /\ UNCHANGED << ref_vars, bk_vars, rest_vars, c_flavor, c_handshake, c_handshakes, now,
                    svr_conns, attested >>

\* AttestedConnection::connect(websocket, E::new_handshake).await returns, and
\* connect returns the tagged connection or the converted error.
HandshakeReturns(outcome) ==
    /\ c_pc = "handshake"
    /\ c_handshakes < 2
    /\ LET a == AttestedConnect(unwrap(c_flavor), outcome)
           r == ConnectResult(unwrap(c_flavor), a)
       IN  /\ c_handshake' = Some(outcome)
           /\ c_handshakes' = c_handshakes + 1
           /\ c_result' = Some(r)
           /\ c_pc' = AfterHandshake(a)
           /\ svr_conns' = IF r.ok THEN svr_conns \cup {r.value} ELSE svr_conns
    /\ UNCHANGED << ref_vars, bk_vars, rest_vars, c_flavor, c_service_state, c_manager_calls,
                    c_net_attempts, route, now, attested >>

\* SvrConnection::<F>::new(inner) on an AttestedConnection the caller holds.
New(F, inner) ==
    /\ inner \in attested
    /\ attested' = attested \ {inner}
    /\ svr_conns' = svr_conns \cup {SvrConnectionNew(F, inner)}
    /\ UNCHANGED << ref_vars, bk_vars, rest_vars, call_vars, route, now >>

\* AttestedConnection::from(conn) on an SvrConnection the caller holds.
Into(conn) ==
    /\ conn \in svr_conns
    /\ svr_conns' = svr_conns \ {conn}
    /\ attested' = attested \cup {IntoAttestedConnection(conn)}
    /\ UNCHANGED << ref_vars, bk_vars, rest_vars, call_vars, route, now >>

\* Time passes.
Tick ==
    /\ now < MaxTime
    /\ now' = now + 1
    /\ UNCHANGED << ref_vars, bk_vars, rest_vars, call_vars, route, svr_conns, attested >>

NextConnect ==
    \/ \E E \in Svr3Flavors : ConnectCall(E)
    \/ \E attempt \in ConnectorOutcomes : ManagerReturns(attempt)
    \/ \E outcome \in HandshakeOutcomes : HandshakeReturns(outcome)
    \/ \E F \in Svr3Flavors : \E inner \in AttestedConnections : New(F, inner)
    \/ \E conn \in SvrConnections : Into(conn)
    \/ Tick

SpecConnect == Init /\ [][NextConnect]_vars

\* ------------------------------------------- actions of Svr3Storage::backup

\* Svr3Storage::apply, Transition::Backup: state.backup(uid, secret, tries_left)
\* is called; the driver connects to SGX first.
BackupCall ==
    /\ b_pc = "idle"
    /\ b_id < MaxBackups
    /\ b_id' = b_id + 1
    /\ b_pc' = "connect_sgx"
    /\ b_conns' = {}
    /\ b_unreachable' = {}
    /\ b_acks' = NoAcks
    /\ UNCHANGED << ref_vars, conn_vars, rest_vars, srv_share, share_set, b_failed >>

\* Svr3Storage::connect: SvrConnection::<E>::connect(...).await.expect(...) for
\* the flavor the driver is connecting to, then the next connect or the backup.
ConnectReturns(E, result) ==
    /\ b_pc = (IF E = "Sgx" THEN "connect_sgx" ELSE "connect_nitro")
    /\ b_conns' = IF result.ok THEN b_conns \cup {ServerOf(E)} ELSE b_conns
    /\ b_unreachable' =
            IF result.ok THEN b_unreachable ELSE b_unreachable \cup {ServerOf(E)}
    /\ b_pc' = AfterConnect(result, IF E = "Sgx" THEN "connect_nitro" ELSE "fanout")
    /\ b_failed' = IF b_pc' = "panicked" THEN b_failed \cup {b_id} ELSE b_failed
    /\ UNCHANGED << ref_vars, conn_vars, rest_vars, b_id, b_acks, srv_share, share_set >>

\* Svr3Env::backup: the replica behind a connection stores the share sent to it
\* and answers.
ReplicaAccepts(i) ==
    /\ b_pc = "fanout"
    /\ b_acks[i] = "pending"
    /\ i \in b_conns
    /\ srv_share' = [srv_share EXCEPT ![i] = b_id]
    /\ b_acks' = [b_acks EXCEPT ![i] = "accepted"]
    /\ UNCHANGED << ref_vars, conn_vars, rest_vars, b_pc, b_id, b_conns, b_unreachable,
                    share_set, b_failed >>

\* Svr3Env::backup: the exchange with a replica fails; the replica may have
\* stored the share before the failure, if it was reached at all.
ReplicaFails(i, stored) ==
    /\ b_pc = "fanout"
    /\ b_acks[i] = "pending"
    /\ srv_share' = IF stored /\ i \in b_conns
                    THEN [srv_share EXCEPT ![i] = b_id]
                    ELSE srv_share
    /\ b_acks' = [b_acks EXCEPT ![i] = "failed"]
    /\ UNCHANGED << ref_vars, conn_vars, rest_vars, b_pc, b_id, b_conns, b_unreachable,
                    share_set, b_failed >>

\* Svr3Env::backup returns once every replica answered; `.expect("can backup")`
\* and share_sets.insert(uid, share_set).
BackupReturns ==
    /\ b_pc = "fanout"
    /\ \A i \in ServerIds : b_acks[i] # "pending"
    /\ LET result == FanIn(b_acks, b_id)
       IN  /\ b_pc' = IF result.ok THEN "idle" ELSE "panicked"
           /\ share_set' = IF result.ok THEN result.value ELSE share_set
           /\ b_failed' = IF result.ok THEN b_failed ELSE b_failed \cup {b_id}
    /\ UNCHANGED << ref_vars, conn_vars, rest_vars, b_id, b_conns, b_unreachable, b_acks,
                    srv_share >>

\* The caller abandons the backup during the fan-out (spec 5): the per-replica
\* operations are abandoned together and no ShareSet is returned.
Cancel ==
    /\ b_pc = "fanout"
    /\ b_pc' = "idle"
    /\ b_failed' = b_failed \cup {b_id}
    /\ UNCHANGED << ref_vars, conn_vars, rest_vars, b_id, b_conns, b_unreachable, b_acks,
                    srv_share, share_set >>

NextBackup ==
    \/ BackupCall
    \/ \E E \in Svr3Flavors : \E result \in ConnectResults(E) : ConnectReturns(E, result)
    \/ \E i \in ServerIds : ReplicaAccepts(i)
    \/ \E i \in ServerIds : \E stored \in BOOLEAN : ReplicaFails(i, stored)
    \/ BackupReturns
    \/ Cancel

SpecBackup == Init /\ [][NextBackup]_vars

\* ---------------------------- actions of the conformance driver (run_test)

\* Transition::SetUid: the reference applies it, then the driver sets its uid.
DriverSetUid(u) ==
    /\ d_status = "running"
    /\ LET r == RefSetUid(data, u)
       IN  /\ uid' = r.uid
           /\ data' = r.data
           /\ last_transition_outcome' = r.outcome
    /\ transition' = SetUidT(u)
    /\ current_uid' = Some(u)
    /\ d_live' = NoCall
    /\ d_branch' = "none"
    /\ UNCHANGED << replicas, live_result, session, ever_backed_up, conn_vars,
                    bk_vars, url_vars, share_sets, forget_share_set, d_status,
                    d_conforming >>

\* Transition::Backup: the reference applies it, then the driver backs up to the
\* live service and keeps the share set; a backup that fails panics.
DriverBackup(secret, tries_left, can_backup) ==
    /\ d_status = "running"
    /\ uid # None
    /\ LET r == RefBackup(data, unwrap(uid), secret, tries_left)
       IN  /\ data' = r.data
           /\ last_transition_outcome' = r.outcome
    /\ transition' = BackupT(secret, tries_left)
    /\ share_sets' = IF can_backup
                     THEN share_sets \cup {unwrap(current_uid)}
                     ELSE share_sets
    /\ d_status' = IF can_backup THEN "running" ELSE "failed"
    /\ d_conforming' = (d_conforming /\ can_backup)
    /\ d_live' = NoCall
    /\ d_branch' = "none"
    /\ UNCHANGED << uid, replicas, live_result, session, ever_backed_up,
                    conn_vars, bk_vars, url_vars, current_uid, forget_share_set >>

\* Transition::Restore | Transition::RestoreWithBadPassword: the reference applies
\* it, then the driver restores from the live service, if it holds a share set,
\* and checks what it got against the reference's last_transition_outcome.
DriverRestore(expect_bad_commitment, live) ==
    /\ d_status = "running"
    /\ uid # None
    /\ LET u == unwrap(current_uid)
           r == RefRestore(data, unwrap(uid), expect_bad_commitment)
           has_share_set == u \in share_sets
           passes == IF has_share_set
                     THEN RestoreCheck(live, r.outcome, expect_bad_commitment)
                     ELSE NothingToRestoreCheck(r.outcome)
       IN  /\ data' = r.data
           /\ last_transition_outcome' = r.outcome
           /\ transition' = IF expect_bad_commitment
                            THEN RestoreWithBadPasswordT
                            ELSE RestoreT
           /\ d_branch' = IF has_share_set THEN "restore" ELSE "nothing_to_restore"
           /\ d_live' = IF has_share_set THEN live ELSE NoCall
           /\ share_sets' = IF has_share_set
                            THEN ShareSetsAfterRestore(share_sets, u, live,
                                                       forget_share_set)
                            ELSE share_sets
           /\ d_status' = IF passes THEN "running" ELSE "failed"
           /\ d_conforming' = (d_conforming
                                /\ (has_share_set => live = ExpectedLive(r.outcome)))
    /\ UNCHANGED << uid, replicas, live_result, session, ever_backed_up,
                    conn_vars, bk_vars, url_vars, current_uid, forget_share_set >>

NextDriver ==
    \/ \E u \in Uids : DriverSetUid(u)
    \/ \E p \in backup_pair : \E can_backup \in BOOLEAN :
            DriverBackup(p[1], p[2], can_backup)
    \/ \E expect_bad_commitment \in BOOLEAN : \E live \in LiveResults :
            DriverRestore(expect_bad_commitment, live)

\* The driver is built with either setting of forget_share_set.
InitDriver == InitState /\ forget_share_set \in BOOLEAN /\ u_call = None

SpecDriver == InitDriver /\ [][NextDriver]_vars

\* ----------------------------------------- actions of enclave endpoint setup

\* The calls tried: a flavor, an identity, and how the path parser treats bytes
\* from 0x7F on.
UrlInputs ==
    {Some([kind |-> E, enclave |-> enclave, lenient |-> lenient]) :
        E \in EnclaveKinds, enclave \in Identities, lenient \in BOOLEAN}

\* E::url_path(enclave) is called.
UrlPath ==
    /\ u_call # None
    /\ u_result = None
    /\ LET c == unwrap(u_call)
       IN  u_result' = [op |-> "url_path",
                        result |-> url_path(c.kind, c.enclave, c.lenient)]
    /\ UNCHANGED << ref_vars, conn_vars, bk_vars, drv_vars, u_call >>

\* EnclaveEndpointConnection::<E, _>::new(endpoint, connect_timeout) is called.
NewEndpointConnection ==
    /\ u_call # None
    /\ u_result = None
    /\ LET c == unwrap(u_call)
       IN  u_result' = [op |-> "new",
                        result |-> with_custom_properties(c.kind, c.enclave, c.lenient)]
    /\ UNCHANGED << ref_vars, conn_vars, bk_vars, drv_vars, u_call >>

NextUrl ==
    \/ UrlPath
    \/ NewEndpointConnection

InitUrl == InitState /\ forget_share_set = FALSE /\ u_call \in UrlInputs

SpecUrl == InitUrl /\ [][NextUrl]_vars

\* ------------------------------------------------------------------- claims

IsRestore(t) == t.kind \in {"Restore", "RestoreWithBadPassword"}

\* The user id the oracle is working on (only where uid is set).
cur == unwrap(uid)

\* The history says: a Backup with max_tries = n, then a restore attempts, some of
\* them with the wrong password iff w, and no SetUid since.
InSession(n, a, w) ==
    /\ session # None
    /\ unwrap(session).max_tries = n
    /\ unwrap(session).attempts = a
    /\ unwrap(session).wrong = w

ConsumedLastTry ==
    /\ IsRestore(transition)
    /\ last_transition_outcome.kind \in {"Restored", "BadCommitment"}
    /\ cur \in DOMAIN data
    /\ data[cur].tries_left = 0

C5_ScenarioD ==
    [][ /\ (transition.kind = "Backup" /\ transition.tries_left = 2
                /\ transition' = RestoreWithBadPasswordT) =>
             /\ last_transition_outcome' = BadCommitment
             /\ cur \in DOMAIN data'
             /\ data'[cur] = Svr3Cell(transition.secret, 1)
        /\ (InSession(2, 1, TRUE) /\ transition = RestoreWithBadPasswordT
                /\ transition' = RestoreT) =>
             /\ last_transition_outcome' = Restored(unwrap(session).secret)
             /\ cur \in DOMAIN data'
             /\ data'[cur] = Svr3Cell(unwrap(session).secret, 0) ]_vars

\* C5 witness: Backup(maxTries = 2), a wrong-password restore, a correct-password
\* restore: two attempts, one with the wrong password, the last one correct.
C5_Witness ==
    /\ InSession(2, 2, TRUE)
    /\ transition = RestoreT
    /\ last_transition_outcome = Restored(unwrap(session).secret)
    /\ data[cur].tries_left = 0

\* C6: from Present(n), n > 1, a restore leaves Present(n - 1) with the secret
\* unchanged, returning Restored(secret) for the correct password and
\* BadCommitment for the wrong one; and (Scenario A) after Backup(secret, 3) one
\* correct restore returns Restored(secret) and leaves tries_left = 2.
C6_RestoreDecrementsByOne ==
    /\ [](  (InSession(3, 1, FALSE) /\ transition = RestoreT) =>
                /\ last_transition_outcome = Restored(unwrap(session).secret)
                /\ cur \in DOMAIN data
                /\ data[cur].tries_left = 2 )
    /\ [][ (IsRestore(transition') /\ cur \in DOMAIN data /\ data[cur].tries_left > 1) =>
             /\ cur \in DOMAIN data'
             /\ data'[cur].secret = data[cur].secret
             /\ data'[cur].tries_left = data[cur].tries_left - 1
             /\ last_transition_outcome' =
                    IF transition' = RestoreT THEN Restored(data[cur].secret)
                                              ELSE BadCommitment ]_vars

\* C6 witness (Scenario A): Backup(maxTries = 3), then one correct restore.
C6_Witness ==
    /\ InSession(3, 1, FALSE)
    /\ transition = RestoreT
    /\ last_transition_outcome = Restored(unwrap(session).secret)
    /\ data[cur].tries_left = 2

\* C7 (attempt monotonicity): without a Backup no record's tries_left increases and
\* no record appears; and after a Backup with max_tries = n, while a <= n restore
\* attempts have been made (with whatever passwords) the record holds
\* tries_left = n - a, so it holds 0 once n attempts were made, and after more
\* attempts the record is gone.
C7_AttemptMonotonicity ==
    /\ [](  session # None =>
                IF unwrap(session).attempts <= unwrap(session).max_tries
                THEN /\ cur \in DOMAIN data
                     /\ data[cur].tries_left =
                            unwrap(session).max_tries - unwrap(session).attempts
                ELSE cur \notin DOMAIN data )
    /\ [][ transition'.kind # "Backup" =>
             /\ DOMAIN data' \subseteq DOMAIN data
             /\ \A u \in DOMAIN data' : data'[u].tries_left <= data[u].tries_left ]_vars

\* C7 witness: max_tries = 3 restore attempts, some with the wrong password and
\* the last with the correct one, have brought tries_left to 0.
C7_Witness ==
    /\ InSession(3, 3, TRUE)
    /\ transition = RestoreT
    /\ data[cur].tries_left = 0

\* C8 (idempotent overwrite): a Backup(secret, maxTries) leaves the user id with
\* exactly Present(maxTries) and the new secret, whatever it held before, and
\* changes no other record; every restore after it that returns a secret (from the
\* oracle or from the live protocol) returns that of the latest Backup.
C8_BackupOverwrites ==
    /\ [](  session # None =>
                /\ (last_transition_outcome.kind = "Restored" =>
                       last_transition_outcome.secret = unwrap(session).secret)
                /\ (live_result.kind = "Ok" =>
                       live_result.secret = unwrap(session).secret) )
    /\ [][ transition'.kind = "Backup" =>
             /\ DOMAIN data' = DOMAIN data \cup {cur}
             /\ data'[cur].secret = transition'.secret
             /\ data'[cur].tries_left = transition'.tries_left
             /\ \A u \in DOMAIN data \ {cur} : data'[u] = data[u] ]_vars

\* C8 witness: a Backup overwrote a record holding another secret, and a restore
\* then returned the new secret.
C8_Witness ==
    /\ session # None
    /\ unwrap(session).replaced
    /\ transition = RestoreT
    /\ last_transition_outcome = Restored(unwrap(session).secret)

\* C9 (Scenario B): a restore, with either password, for a user id that holds no
\* record yields NotFound (DataMissing from the live protocol) and changes no
\* record; no restore ever creates a record.
C9_RestoreOfAbsentIsNotFound ==
    [][ IsRestore(transition') =>
          /\ DOMAIN data' \subseteq DOMAIN data
          /\ (cur \notin DOMAIN data) =>
                (/\ last_transition_outcome' = NotFound
                 /\ data' = data
                 /\ live_result' = LiveDataMissing
                 /\ ExpectedLive(last_transition_outcome') = LiveDataMissing) ]_vars

\* C9 witness: a restore for a user id no Backup was ever applied to.
C9_Witness ==
    /\ IsRestore(transition)
    /\ cur \notin ever_backed_up
    /\ last_transition_outcome = NotFound
    /\ live_result = LiveDataMissing

\* The restore just made found the user's record never created.
NeverCreated == cur \notin ever_backed_up

\* The restore just made came after the max_tries attempts of the latest Backup
\* were all used.
Exhausted == session # None /\ unwrap(session).attempts > unwrap(session).max_tries

\* C10 (anti-enumeration): a restore of a never-created record and a restore of an
\* exhausted one give the caller the same result, DataMissing, with either
\* password: the live protocol returns it, and it is what the oracle's outcome
\* (NotFound, MaxTriesReached) maps to.
C10_AbsentAndExhaustedLookAlike ==
    (IsRestore(transition) /\ (NeverCreated \/ Exhausted)) =>
        /\ live_result = LiveDataMissing
        /\ ExpectedLive(last_transition_outcome) = LiveDataMissing

\* C10 witness: a wrong-password restore of an exhausted record, answered as a
\* restore of a never-created one is.
C10_Witness ==
    /\ transition = RestoreWithBadPasswordT
    /\ Exhausted
    /\ ~NeverCreated
    /\ last_transition_outcome = MaxTriesReached
    /\ live_result = LiveDataMissing

\* ------------------------------------------- claims on SvrConnection::connect

Returned == c_pc = "returned" /\ c_result # None

ManagerSaid(kind) == c_service_state # None /\ unwrap(c_service_state).kind = kind

HandshakeEnded(kind) == c_handshake # None /\ unwrap(c_handshake).kind = kind

\* The step on which the manager's attempt returns to connect.
ManagerStep == c_pc = "manager" /\ c_pc' # "manager"

\* The step on which the handshake returns to connect.
HandshakeStep == c_pc = "handshake" /\ c_handshake' # c_handshake

\* C11: every SvrConnection the caller holds, however it was obtained through
\* connect, new and the conversion to AttestedConnection, is tagged with the
\* flavor whose handshake verified its channel.
C11_TagIsVerifyingFlavor ==
    \A conn \in svr_conns : conn.witness = conn.inner.verified_by

\* C12: connect returns a connection only if the handshake verified the
\* evidence; when the handshake fails verification connect returns
\* Error::AttestationError carrying the cause, which is neither the Net nor the
\* Protocol kind, and the step that fails hands the caller no channel.
C12_AttestationFailureIsReported ==
    /\ [](Returned =>
            /\ (unwrap(c_result).ok => HandshakeEnded("Verified"))
            /\ (HandshakeEnded("Sgx") =>
                    /\ ~unwrap(c_result).ok
                    /\ unwrap(c_result).error =
                            ErrorAttestationError(unwrap(c_handshake).error)
                    /\ unwrap(c_result).error.kind \notin {"Net", "Protocol"}))
    /\ [][(HandshakeStep /\ unwrap(c_handshake').kind = "Sgx") =>
            (svr_conns' = svr_conns /\ attested' = attested)]_vars

\* C12 witness: a call returned after the handshake rejected the evidence.
C12_Witness ==
    /\ Returned
    /\ HandshakeEnded("Sgx")
    /\ unwrap(c_result) = Err(ErrorAttestationError("AttestationDataError"))

\* The Network error connect owes the caller for a manager outcome other than
\* Active.
NetErrorFor(state) ==
    CASE state.kind = "Cooldown" -> "NoServiceConnection"
      [] state.kind = "Error" -> state.error
      [] state.kind = "TimedOut" -> "Timeout"

\* C13: when the manager's attempt ends in Cooldown, Error(cause) or TimedOut,
\* connect has returned the Network error NoServiceConnection, the cause or
\* Timeout respectively, without ever starting the handshake and without handing
\* the caller a connection; the handshake runs only after Active.
C13_NonActiveIsNetworkError ==
    /\ []((c_service_state # None /\ ~ManagerSaid("Active")) =>
            /\ Returned
            /\ unwrap(c_result) =
                    Err(ErrorNet(NetErrorFor(unwrap(c_service_state))))
            /\ c_handshakes = 0
            /\ c_handshake = None)
    /\ []((c_pc = "handshake" \/ c_handshakes > 0) => ManagerSaid("Active"))
    /\ [][(ManagerStep /\ unwrap(c_service_state').kind # "Active") =>
            (svr_conns' = svr_conns /\ attested' = attested)]_vars

\* C13 witness: a call rejected because the route was in cooldown.
C13_Witness ==
    /\ Returned
    /\ ManagerSaid("Cooldown")
    /\ unwrap(c_result) = Err(ErrorNet("NoServiceConnection"))
    /\ c_handshakes = 0

\* C14: connect returns Error::Net only when the manager reported a state
\* other than Active or the transport failed with a network error during the
\* handshake; a structurally invalid exchange or a client-handshake failure is
\* Error::Protocol and an attestation failure is Error::AttestationError.
C14_ProtocolFailureIsNotNetwork ==
    Returned =>
        /\ ((~unwrap(c_result).ok /\ unwrap(c_result).error.kind = "Net") =>
                (~ManagerSaid("Active") \/ HandshakeEnded("Net")))
        /\ ((HandshakeEnded("ClientConnection") \/ HandshakeEnded("Protocol")) =>
                unwrap(c_result) = Err(ErrorProtocol))
        /\ (HandshakeEnded("Sgx") =>
                (~unwrap(c_result).ok
                    /\ unwrap(c_result).error.kind = "AttestationError"))
        /\ (HandshakeEnded("Net") =>
                unwrap(c_result) = Err(ErrorNet(unwrap(c_handshake).error)))

\* C14 witness: a call returned Protocol after the client handshake failed.
C14_Witness ==
    /\ Returned
    /\ ManagerSaid("Active")
    /\ HandshakeEnded("ClientConnection")
    /\ unwrap(c_result) = Err(ErrorProtocol)

\* C15: one call to connect asks the manager exactly once and starts at most
\* one handshake; once the handshake has ended, failed or not, the call has
\* returned; and once the manager returned its outcome the call never asks it
\* again.
C15_OneAttemptPerCall ==
    /\ [](/\ c_manager_calls <= 1
          /\ c_handshakes <= 1
          /\ (c_pc \in {"handshake", "returned"} => c_manager_calls = 1)
          /\ (c_handshake # None => (c_pc = "returned" /\ c_handshakes = 1)))
    /\ [][(c_service_state # None /\ c_pc' # "manager") =>
            (c_manager_calls' = c_manager_calls
                /\ c_service_state' = c_service_state)]_vars

\* C15 witness: a call returned after its one handshake failed on the network.
C15_Witness ==
    /\ Returned
    /\ HandshakeEnded("Net")
    /\ ~unwrap(c_result).ok
    /\ c_manager_calls = 1
    /\ c_handshakes = 1

\* C16: when connect is rejected because the route is in cooldown, the error
\* returned reports the remaining cooldown the manager gave.
C16_CooldownErrorReportsRemaining ==
    (Returned /\ ManagerSaid("Cooldown")) =>
        /\ "remaining" \in DOMAIN unwrap(c_result).error
        /\ unwrap(c_result).error.remaining = unwrap(c_service_state).remaining

\* C18: a connection call made while the route's cooldown window is active
\* returns Cooldown without a network attempt and leaves the route as it was;
\* a call outside the window attempts the network once; a transport failure
\* leaves the route in a cooldown window ending later than before; a success
\* resets the route, so that the next call attempts the network.
C18_ManagerBackpressure ==
    [][ManagerStep =>
        /\ (InCooldown(route, now) =>
                /\ c_service_state' = Some(Cooldown(route.cooldown_until - now))
                /\ c_net_attempts' = c_net_attempts
                /\ route' = route)
        /\ (~InCooldown(route, now) =>
                /\ c_net_attempts' = c_net_attempts + 1
                /\ unwrap(c_service_state').kind # "Cooldown")
        /\ (unwrap(c_service_state').kind = "Error" =>
                /\ InCooldown(route', now)
                /\ route'.cooldown_until > route.cooldown_until
                /\ route'.failures > 0)
        /\ (unwrap(c_service_state').kind = "Active" =>
                /\ route' = FreshRoute
                /\ \A t \in 0 .. MaxTime : ~InCooldown(route', t))]_vars

\* C18 witness: a call answered Cooldown, with no network attempt, while the
\* window a failure opened was still active.
C18_Witness ==
    /\ Returned
    /\ ManagerSaid("Cooldown")
    /\ c_net_attempts = 0
    /\ route.failures > 0
    /\ InCooldown(route, now)

\* ------------------------------------------------ claims on the backup fan-out

SessionRestoreStep ==
    /\ session # None
    /\ session' # None
    /\ unwrap(session').attempts >= 1
    /\ IsRestore(transition')

\* The outcome the password of a restore selects on a record holding secret.
ByPassword(t, secret) ==
    IF t = RestoreT THEN Restored(secret) ELSE BadCommitment

\* C19: after Backup(secret, n), with no further Backup for the user, each of
\* the first n restores is answered by its password (Restored(secret) or
\* BadCommitment) and leaves the record with one try less; the restore after
\* them is answered MaxTriesReached and removes the record; every restore after
\* that is answered NotFound and changes nothing; MaxTriesReached is answered
\* only by the restore that follows exactly n attempts, and any restore answered
\* MaxTriesReached removes the record, so that a backup sees it at most once.
C19_TriesThenMaxTriesThenNotFound ==
    /\ []((IsRestore(transition) /\ session # None
                /\ unwrap(session).attempts \in 1 .. unwrap(session).max_tries) =>
            /\ last_transition_outcome = ByPassword(transition, unwrap(session).secret)
            /\ cur \in DOMAIN data
            /\ data[cur].secret = unwrap(session).secret
            /\ data[cur].tries_left =
                    unwrap(session).max_tries - unwrap(session).attempts)
    /\ [][SessionRestoreStep =>
            /\ (unwrap(session).attempts = unwrap(session).max_tries =>
                    /\ last_transition_outcome' = MaxTriesReached
                    /\ cur \in DOMAIN data
                    /\ cur \notin DOMAIN data')
            /\ (unwrap(session).attempts > unwrap(session).max_tries =>
                    /\ last_transition_outcome' = NotFound
                    /\ cur \notin DOMAIN data
                    /\ data' = data)
            /\ (last_transition_outcome' = MaxTriesReached =>
                    unwrap(session).attempts = unwrap(session).max_tries)]_vars
    /\ [][(IsRestore(transition') /\ last_transition_outcome' = MaxTriesReached) =>
            /\ cur \in DOMAIN data
            /\ data[cur].tries_left = 0
            /\ cur \notin DOMAIN data']_vars

\* C19 witness: after Backup(_, 2) and restores with both passwords, a restore
\* past the one answered MaxTriesReached was answered NotFound.
C19_Witness ==
    /\ InSession(2, 3, TRUE)
    /\ IsRestore(transition)
    /\ last_transition_outcome = NotFound
    /\ cur \notin DOMAIN data

\* The record of user id u is the same before and after the step.
SameRecord(u) ==
    /\ (u \in DOMAIN data) = (u \in DOMAIN data')
    /\ (u \in DOMAIN data => data'[u] = data[u])

\* C20: Backup, Restore and RestoreWithBadPassword leave the selected uid as it
\* is and change the record of no other user id; SetUid changes no record at
\* all, selects the uid it names and resets the last outcome to Nothing.
C20_PerUserIsolation ==
    [][/\ (transition'.kind = "SetUid" =>
                /\ data' = data
                /\ uid' = Some(transition'.uid)
                /\ last_transition_outcome' = Nothing)
       /\ (transition'.kind # "SetUid" =>
                /\ uid # None
                /\ uid' = uid
                /\ \A u \in Uids \ {cur} : SameRecord(u))]_vars

\* C20 witness: the selected user's record was just removed by an exhausted
\* restore while another user's record is still stored.
C20_Witness ==
    /\ IsRestore(transition)
    /\ last_transition_outcome = MaxTriesReached
    /\ cur \notin DOMAIN data
    /\ \E u \in Uids \ {cur} : u \in DOMAIN data /\ data[u].tries_left > 0

\* ------------------------------------------- claims on the conformance driver

\* C21: after every restore transition the driver let pass with a call to the
\* live service, the live result is the one the reference's outcome maps to:
\* Ok only with Restored and the same secret, DataMissing only with NotFound or
\* MaxTriesReached, RestoreFailed only with BadCommitment.
C21_DriverRejectsEveryDivergence ==
    (IsRestore(transition) /\ d_status = "running" /\ d_branch = "restore") =>
        d_live = ExpectedLive(last_transition_outcome)

\* C22: with either setting of forget_share_set, and as long as the live service
\* has answered as the reference does, the driver holds a share set for every
\* user id the reference holds a record for, none of its checks has failed, and
\* a restore that took the "nothing to restore" arm was answered NotFound by the
\* reference.
C22_ShareSetWheneverRecord ==
    d_conforming =>
        /\ d_status = "running"
        /\ current_uid = uid
        /\ \A u \in DOMAIN data : u \in share_sets
        /\ (d_branch = "nothing_to_restore" => last_transition_outcome = NotFound)

\* C22 witness: with forget_share_set, a conforming service answered an
\* exhausted restore DataMissing; the reference removed the record and the
\* driver forgot the share set, while another user id keeps both.
C22_Witness ==
    /\ d_conforming
    /\ forget_share_set
    /\ IsRestore(transition)
    /\ last_transition_outcome = MaxTriesReached
    /\ d_live = LiveDataMissing
    /\ cur \notin share_sets
    /\ \E u \in Uids \ {cur} : u \in DOMAIN data /\ u \in share_sets

\* -------------------------------------------------------- claims on url_path

\* The path the flavor's rule gives for an identity.
ExpectedPath(E, enclave) ==
    CASE E = "Sgx" -> V1 \o HexEncode(enclave)
      [] E = "Cdsi" -> V1 \o HexEncode(enclave) \o Discovery
      [] E = "Nitro" -> V1 \o enclave

\* C23: for every flavor and every identity, url_path returns, without a panic,
\* the path the flavor's rule gives, and EnclaveEndpointConnection::new returns
\* a connection for that path.
C23_UrlPathIsTotal ==
    u_result # None =>
        /\ ~u_result.result.panic
        /\ (IF u_result.op = "url_path"
            THEN u_result.result.value
            ELSE u_result.result.value.path)
                = ExpectedPath(unwrap(u_call).kind, unwrap(u_call).enclave)

====
